---- MODULE Spec2Model ----
(***************************************************************************)
(* Index-expression IR of taco (expr.cpp): expression nodes, structural    *)
(* equality, well-formedness, einsum normalisation, zero-propagation       *)
(* simplification and the assignment protocol of TensorVar.                *)
(*                                                                         *)
(* Expression nodes live in a node table `nodes`; the identity of a node   *)
(* (the C++ pointer) is its index in the table and 0 is the undefined      *)
(* IndexExpr.  Children always refer to earlier entries, so every table is *)
(* a DAG.                                                                  *)
(***************************************************************************)
EXTENDS Integers, Sequences, FiniteSets, TLC

VARIABLES nodes, tv, op, res, operatorSplits, schedule

vars == <<nodes, tv, op, res, operatorSplits, schedule>>

(***************************************************************************)
(* Bounds and input alphabets                                              *)
(***************************************************************************)
\* largest node table the construction actions build
MaxNodes == 3

\* largest expression tree drawn as the input of an analysis
MaxTreeNodes == 4

\* largest expression tree drawn as the right-hand side of an assignment
MaxRhsNodes == 2

IndexVars == {"i", "j"}

Tensors == {"A", "B", "c"}

\* the shape of each tensor's type: A is 2x2, B is a 3-vector, c is a scalar
Shape(t) == CASE t = "A" -> <<2, 2>> [] t = "B" -> <<3>> [] OTHER -> <<>>

ImmKinds == {"IntImm", "FloatImm"}

ImmVals == {1, 2}

IndexSeqs == UNION {[1..n -> IndexVars] : n \in 0..2}

FreeLists == {f \in IndexSeqs : \A p, q \in DOMAIN f : f[p] = f[q] => p = q}

Range(s) == {s[p] : p \in DOMAIN s}

UnaryKinds == {"Neg", "Sqrt"}

BinaryKinds == {"Add", "Sub", "Mul", "Div"}

(***************************************************************************)
(* Nodes                                                                   *)
(***************************************************************************)
getOrder(t) == Len(Shape(t))

AccessNode(t, indices) ==
  [kind |-> "Access", tensorVar |-> t, indexVars |-> indices, val |-> 0,
   var |-> "", a |-> 0, b |-> 0]

ImmNode(k, v) ==
  [kind |-> k, tensorVar |-> "", indexVars |-> <<>>, val |-> v,
   var |-> "", a |-> 0, b |-> 0]

UnaryNode(k, a) ==
  [kind |-> k, tensorVar |-> "", indexVars |-> <<>>, val |-> 0,
   var |-> "", a |-> a, b |-> 0]

BinaryNode(k, a, b) ==
  [kind |-> k, tensorVar |-> "", indexVars |-> <<>>, val |-> 0,
   var |-> "", a |-> a, b |-> b]

\* sum(var) always carries an empty AddNode as its operator template, so
\* the op field of a ReductionNode is the same for every reduction
ReductionNode(v, a) ==
  [kind |-> "Reduction", tensorVar |-> "", indexVars |-> <<>>, val |-> 0,
   var |-> v, a |-> a, b |-> 0]

NodeIds == 1..Len(nodes)

\* the last call made on a tensor or the operator surface and how it ended
Call(name, t, indices, e, out) ==
  [name |-> name, t |-> t, indices |-> indices, e |-> e, out |-> out]

NoOp == Call("none", "", <<>>, 0, "none")

NoRes == [fn |-> "none"]

(***************************************************************************)
(* Construction: the operator surface                                      *)
(***************************************************************************)
\* ExprNode::ExprNode: a new node starts with an empty list of operator
\* splits
Alloc(n) ==
  /\ nodes' = Append(nodes, n)
  /\ operatorSplits' = Append(operatorSplits, <<>>)

\* TensorVar::operator()(indices)
TensorVarCall ==
  \E t \in Tensors, indices \in IndexSeqs :
    /\ Len(nodes) < MaxNodes
    /\ IF Len(indices) = getOrder(t)
         THEN /\ Alloc(AccessNode(t, indices))
              /\ op' = Call("call", t, indices, 0, "ok")
         ELSE /\ UNCHANGED <<nodes, operatorSplits>>
              /\ op' = Call("call", t, indices, 0, "arity")
    /\ UNCHANGED <<tv, res, schedule>>

\* IndexExpr::IndexExpr(TensorVar)
IndexExprOfTensorVar ==
  \E t \in Tensors :
    /\ Len(nodes) < MaxNodes
    /\ Alloc(AccessNode(t, <<>>))
    /\ op' = Call("convert", t, <<>>, 0, "ok")
    /\ UNCHANGED <<tv, res, schedule>>

\* IndexExpr::IndexExpr(long long) and IndexExpr::IndexExpr(double)
IndexExprOfImm ==
  \E k \in ImmKinds, v \in ImmVals :
    /\ Len(nodes) < MaxNodes
    /\ Alloc(ImmNode(k, v))
    /\ op' = Call("build", "", <<>>, 0, "ok")
    /\ UNCHANGED <<tv, res, schedule>>

\* operator-(expr)
OpNeg ==
  \E a \in NodeIds :
    /\ Len(nodes) < MaxNodes
    /\ Alloc(UnaryNode("Neg", a))
    /\ op' = Call("build", "", <<>>, 0, "ok")
    /\ UNCHANGED <<tv, res, schedule>>

\* operator+, operator-, operator*, operator/ on two expressions
OpBinary(k) ==
  \E a, b \in NodeIds :
    /\ Len(nodes) < MaxNodes
    /\ Alloc(BinaryNode(k, a, b))
    /\ op' = Call("build", "", <<>>, 0, "ok")
    /\ UNCHANGED <<tv, res, schedule>>

OpAdd == OpBinary("Add")

OpSub == OpBinary("Sub")

OpMul == OpBinary("Mul")

OpDiv == OpBinary("Div")

\* sum(indexVar)(expr)
Sum ==
  \E v \in IndexVars, a \in NodeIds :
    /\ Len(nodes) < MaxNodes
    /\ Alloc(ReductionNode(v, a))
    /\ op' = Call("build", "", <<>>, 0, "ok")
    /\ UNCHANGED <<tv, res, schedule>>

Build ==
  \/ TensorVarCall
  \/ IndexExprOfTensorVar
  \/ IndexExprOfImm
  \/ OpNeg
  \/ OpAdd
  \/ OpSub
  \/ OpMul
  \/ OpDiv
  \/ Sum

(***************************************************************************)
(* Expression handles.  An IndexExpr is either a reference to a node of    *)
(* the table (Ref(0) is the undefined IndexExpr) or a node freshly         *)
(* allocated by a rewriter, written as a node record whose children are    *)
(* themselves handles.  Pointer equality of handles is equality of these   *)
(* values: a fresh node never equals a node of the table.                  *)
(***************************************************************************)
Ref(n) == [id |-> n]

Undef == Ref(0)

IsRef(x) == DOMAIN x = {"id"}

defined(x) == x # Undef

node(x) == IF IsRef(x) THEN nodes[x.id] ELSE x

childA(x) == IF IsRef(x) THEN Ref(nodes[x.id].a) ELSE x.a

childB(x) == IF IsRef(x) THEN Ref(nodes[x.id].b) ELSE x.b

Exprs == {Ref(n) : n \in NodeIds}

(***************************************************************************)
(* Structural equality                                                     *)
(***************************************************************************)
\* Equals::visit(const AccessNode*), b already known to be an AccessNode.
\* The size test compares anode with itself and never fails, so the loop
\* runs over anode's indices; reading bnode->indexVars[i] past its end is an
\* out-of-bounds read whose comparison can come out either way.
AccessEquals(an, bn) ==
  IF an.tensorVar # bn.tensorVar
    THEN {FALSE}
    ELSE IF \E p \in DOMAIN an.indexVars :
              /\ p \in DOMAIN bn.indexVars
              /\ an.indexVars[p] # bn.indexVars[p]
           THEN {FALSE}
           ELSE IF Len(an.indexVars) > Len(bn.indexVars)
                  THEN BOOLEAN
                  ELSE {TRUE}

\* a && b with short-circuit evaluation, over sets of possible outcomes
AndOutcomes(oa, ob) ==
  {r \in BOOLEAN : (r = FALSE /\ FALSE \in oa) \/ (TRUE \in oa /\ r \in ob)}

RECURSIVE equalsOutcomes(_, _)
\* equals(a, b) with struct Equals: the set of results a call can return
equalsOutcomes(x, y) ==
  IF ~defined(x) /\ ~defined(y) THEN {TRUE}
  ELSE IF ~defined(x) \/ ~defined(y) THEN {FALSE}
  ELSE LET an == node(x)
           bn == node(y)
       IN  IF an.kind # bn.kind THEN {FALSE}
           ELSE CASE an.kind = "Access" -> AccessEquals(an, bn)
                  [] an.kind \in UnaryKinds ->
                       equalsOutcomes(childA(x), childA(y))
                  [] an.kind \in BinaryKinds ->
                       AndOutcomes(equalsOutcomes(childA(x), childA(y)),
                                   equalsOutcomes(childB(x), childB(y)))
                  [] an.kind = "Reduction" ->
                       equalsOutcomes(childA(x), childA(y))
                  [] OTHER -> {an.val = bn.val}

(***************************************************************************)
(* Variable collection and well-formedness                                 *)
(***************************************************************************)
RECURSIVE AppendUnseen(_, _)
AppendUnseen(seen, indices) ==
  IF indices = <<>> THEN seen
  ELSE AppendUnseen(IF Head(indices) \in Range(seen) THEN seen
                    ELSE Append(seen, Head(indices)),
                    Tail(indices))

RECURSIVE getIndexVarsVisit(_, _)
getIndexVarsVisit(x, indexVars) ==
  LET n == node(x)
  IN  CASE n.kind = "Access" -> AppendUnseen(indexVars, n.indexVars)
        [] n.kind \in UnaryKinds \cup {"Reduction"} ->
             getIndexVarsVisit(childA(x), indexVars)
        [] n.kind \in BinaryKinds ->
             getIndexVarsVisit(childB(x),
                               getIndexVarsVisit(childA(x), indexVars))
        [] OTHER -> indexVars

\* getIndexVars(const IndexExpr&): first-occurrence order, no duplicates
getIndexVars(x) == getIndexVarsVisit(x, <<>>)

RECURSIVE GetVarsWithoutReduction(_, _)
\* the visitor of getVarsWithoutReduction: one set is threaded through the
\* whole walk; the ReductionNode handler erases its variable from the set
\* gathered so far and does not walk into the reduction's body
GetVarsWithoutReduction(x, indexvars) ==
  LET n == node(x)
  IN  CASE n.kind = "Access" -> indexvars \cup Range(n.indexVars)
        [] n.kind = "Reduction" -> indexvars \ {n.var}
        [] n.kind \in UnaryKinds ->
             GetVarsWithoutReduction(childA(x), indexvars)
        [] n.kind \in BinaryKinds ->
             GetVarsWithoutReduction(childB(x),
               GetVarsWithoutReduction(childA(x), indexvars))
        [] OTHER -> indexvars

getVarsWithoutReduction(x) == GetVarsWithoutReduction(x, {})

\* verify(const IndexExpr&, const std::vector<IndexVar>&)
verify(x, free) ==
  \A var \in getVarsWithoutReduction(x) : var \in Range(free)

(***************************************************************************)
(* Einsum detection and normalisation                                      *)
(***************************************************************************)
RECURSIVE VerifyEinsum(_, _)
\* the visitor of doesEinsumApply; st carries isEinsum and mulnodeVisited.
\* Nodes without a handler of their own (Neg, Sqrt, Access, immediates)
\* take the default visit, which walks into the operand of a unary node.
VerifyEinsum(x, st) ==
  LET n == node(x)
  IN  CASE n.kind \in {"Add", "Sub"} ->
             IF st.mulnodeVisited
               THEN [st EXCEPT !.isEinsum = FALSE]
               ELSE VerifyEinsum(childB(x), VerifyEinsum(childA(x), st))
        [] n.kind = "Mul" ->
             LET topMulNode == ~st.mulnodeVisited
                 s1 == VerifyEinsum(childB(x),
                         VerifyEinsum(childA(x),
                                      [st EXCEPT !.mulnodeVisited = TRUE]))
             IN  IF topMulNode THEN [s1 EXCEPT !.mulnodeVisited = FALSE]
                 ELSE s1
        [] n.kind = "Div" -> [st EXCEPT !.isEinsum = FALSE]
        [] n.kind = "Reduction" -> [st EXCEPT !.isEinsum = FALSE]
        [] n.kind \in UnaryKinds -> VerifyEinsum(childA(x), st)
        [] OTHER -> st

\* doesEinsumApply(IndexExpr)
doesEinsumApply(x) ==
  VerifyEinsum(x, [isEinsum |-> TRUE, mulnodeVisited |-> FALSE]).isEinsum

RECURSIVE WrapReductions(_, _, _)
\* the loop of Einsum::addReductions over the variables still to be
\* handled: each variable that is not free wraps the expression built so far
WrapReductions(x, todo, free) ==
  IF todo = <<>> THEN x
  ELSE WrapReductions(IF Head(todo) \in free THEN x
                      ELSE ReductionNode(Head(todo), x),
                      Tail(todo), free)

Reverse(s) == [p \in 1..Len(s) |-> s[Len(s) + 1 - p]]

\* addReductions walking the variables in occurrence order, not reversed
addReductionsForward(x, free) == WrapReductions(x, getIndexVars(x), free)

\* addReductions with the loop starting one variable late
addReductionsSkipsOne(x, free) ==
  LET todo == Reverse(getIndexVars(x))
  IN  WrapReductions(x, IF todo = <<>> THEN todo ELSE Tail(todo), free)

\* Einsum::addReductions
addReductions(x, free) == WrapReductions(x, Reverse(getIndexVars(x)), free)

\* Einsum::visit(const AddNode*) and Einsum::visit(const SubNode*)
EinsumVisitSum(x, free) ==
  LET a == addReductions(childA(x), free)
      b == addReductions(childB(x), free)
  IN  IF a = childA(x) /\ b = childB(x) THEN x
      ELSE BinaryNode(node(x).kind, a, b)

RECURSIVE EinsumRewrite(_, _)
\* Einsum::rewrite: Add and Sub take the handlers above, every other node
\* the rewriter's default, which rewrites the children and keeps the node
\* when they come back identical
EinsumRewrite(x, free) ==
  LET n == node(x)
  IN  CASE n.kind \in {"Add", "Sub"} -> EinsumVisitSum(x, free)
        [] n.kind \in {"Mul", "Div"} ->
             LET a == EinsumRewrite(childA(x), free)
                 b == EinsumRewrite(childB(x), free)
             IN  IF a = childA(x) /\ b = childB(x) THEN x
                 ELSE BinaryNode(n.kind, a, b)
        [] n.kind \in UnaryKinds ->
             LET a == EinsumRewrite(childA(x), free)
             IN  IF a = childA(x) THEN x ELSE UnaryNode(n.kind, a)
        [] n.kind = "Reduction" ->
             LET a == EinsumRewrite(childA(x), free)
             IN  IF a = childA(x) THEN x ELSE ReductionNode(n.var, a)
        [] OTHER -> x

RECURSIVE VisitsSum(_)
\* whether Einsum::rewrite reaches an Add or Sub handler, which clears
\* onlyOneTerm; the handlers do not rewrite below themselves
VisitsSum(x) ==
  LET n == node(x)
  IN  CASE n.kind \in {"Add", "Sub"} -> TRUE
        [] n.kind \in {"Mul", "Div"} ->
             VisitsSum(childA(x)) \/ VisitsSum(childB(x))
        [] n.kind \in UnaryKinds \cup {"Reduction"} -> VisitsSum(childA(x))
        [] OTHER -> FALSE

\* einsum(const IndexExpr&, const std::vector<IndexVar>&)
einsum(x, free) ==
  IF ~doesEinsumApply(x) THEN Undef
  ELSE LET onlyOneTerm == ~VisitsSum(x)
           einsumexpr == EinsumRewrite(x, Range(free))
       IN  IF onlyOneTerm THEN addReductions(einsumexpr, Range(free))
           ELSE einsumexpr

(***************************************************************************)
(* Zero-propagation simplification                                         *)
(***************************************************************************)
\* visitDisjunctionOp that keeps the node when both operands vanish
visitDisjunctionOpKeepsNode(x, a, b) ==
  IF ~defined(a) /\ ~defined(b) THEN x
  ELSE IF ~defined(a) THEN b
  ELSE IF ~defined(b) THEN a
  ELSE IF a = childA(x) /\ b = childB(x) THEN x
  ELSE BinaryNode(node(x).kind, a, b)

\* Simplify::visitDisjunctionOp
visitDisjunctionOp(x, a, b) ==
  IF ~defined(a) /\ ~defined(b) THEN Undef
  ELSE IF ~defined(a) THEN b
  ELSE IF ~defined(b) THEN a
  ELSE IF a = childA(x) /\ b = childB(x) THEN x
  ELSE BinaryNode(node(x).kind, a, b)

\* visitConjunctionOp that allocates a node even when nothing changed
visitConjunctionOpRebuilds(x, a, b) ==
  IF ~defined(a) \/ ~defined(b) THEN Undef
  ELSE BinaryNode(node(x).kind, a, b)

\* Simplify::visitConjunctionOp
visitConjunctionOp(x, a, b) ==
  IF ~defined(a) \/ ~defined(b) THEN Undef
  ELSE IF a = childA(x) /\ b = childB(x) THEN x
  ELSE BinaryNode(node(x).kind, a, b)

\* Simplify::visitUnaryOp
visitUnaryOp(x, a) ==
  IF ~defined(a) THEN Undef
  ELSE IF a = childA(x) THEN x
  ELSE UnaryNode(node(x).kind, a)

\* Simplify::visit(const ReductionNode*)
visitReduction(x, a) ==
  IF ~defined(a) THEN Undef
  ELSE IF a = childA(x) THEN x
  ELSE ReductionNode(node(x).var, a)

\* Simplify::visit(const AccessNode*); zeroed is a set of Access handles
visitAccess(x, zeroed) == IF x \in zeroed THEN Undef ELSE x

RECURSIVE SimplifyRewrite(_, _)
\* Simplify::rewrite
SimplifyRewrite(x, zeroed) ==
  IF ~defined(x) THEN Undef
  ELSE LET n == node(x)
       IN  CASE n.kind = "Access" -> visitAccess(x, zeroed)
             [] n.kind \in UnaryKinds ->
                  visitUnaryOp(x, SimplifyRewrite(childA(x), zeroed))
             [] n.kind \in {"Add", "Sub"} ->
                  visitDisjunctionOp(x, SimplifyRewrite(childA(x), zeroed),
                                     SimplifyRewrite(childB(x), zeroed))
             [] n.kind \in {"Mul", "Div"} ->
                  visitConjunctionOp(x, SimplifyRewrite(childA(x), zeroed),
                                     SimplifyRewrite(childB(x), zeroed))
             [] n.kind = "Reduction" ->
                  visitReduction(x, SimplifyRewrite(childA(x), zeroed))
             [] OTHER -> x

\* simplify(const IndexExpr&, const set<Access>&)
simplify(x, zeroed) == SimplifyRewrite(x, zeroed)

(***************************************************************************)
(* Assignment protocol                                                     *)
(***************************************************************************)
RECURSIVE Accesses(_)
\* the Access nodes of an expression, as handles
Accesses(x) ==
  LET n == node(x)
  IN  CASE n.kind = "Access" -> {x}
        [] n.kind \in UnaryKinds \cup {"Reduction"} -> Accesses(childA(x))
        [] n.kind \in BinaryKinds ->
             Accesses(childA(x)) \cup Accesses(childB(x))
        [] OTHER -> {}

\* the index lists of the result and of every access of the expression,
\* each with the shape it indexes
IndexLists(freeVars, x, shape) ==
  {[indices |-> freeVars, shape |-> shape]} \cup
  {[indices |-> node(acc).indexVars, shape |-> Shape(node(acc).tensorVar)] :
     acc \in Accesses(x)}

\* the dimensions an index variable is used for
DimensionsOf(var, lists) ==
  UNION {{l.shape[p] : p \in {q \in DOMAIN l.indices :
                                q \in DOMAIN l.shape /\ l.indices[q] = var}} :
         l \in lists}

\* error::dimensionsTypecheck: every index variable indexes one dimension
dimensionsTypecheck(freeVars, x, shape) ==
  \A var \in IndexVars :
    Cardinality(DimensionsOf(var, IndexLists(freeVars, x, shape))) <= 1

Before(u, v, indices) ==
  \E p, q \in DOMAIN indices : p < q /\ indices[p] = u /\ indices[q] = v

\* error::containsTranspose for row-major formats: two index lists order a
\* pair of variables differently
containsTranspose(freeVars, x) ==
  \E u, v \in IndexVars :
    /\ u # v
    /\ \E l, m \in IndexLists(freeVars, x, <<>>) :
         Before(u, v, l.indices) /\ Before(v, u, m.indices)

\* error::containsDistribution: a free variable occurs in no access
containsDistribution(freeVars, x) ==
  \E var \in Range(freeVars) :
    \A acc \in Accesses(x) : var \notin Range(node(acc).indexVars)

\* struct TensorVar::Content, the fields of the assignment.  accumulate is
\* the set of values a read of the flag can return: the constructor leaves
\* the bool uninitialised, a store makes it one value.
Content(freeVars, indexExpr, accumulate) ==
  [freeVars |-> freeVars, indexExpr |-> indexExpr, accumulate |-> accumulate]

\* the taco_uassert chain of TensorVar::setIndexExpression: the first check
\* that fails, or "ok"
setIndexExpressionChecks(t, freeVars, x) ==
  IF ~dimensionsTypecheck(freeVars, x, Shape(t)) THEN "dimension"
  ELSE IF ~verify(x, freeVars) THEN "misformed"
  ELSE IF containsTranspose(freeVars, x) THEN "transposition"
  ELSE IF containsDistribution(freeVars, x) THEN "distribution"
  ELSE "ok"

\* setIndexExpression with the three stores moved in front of the checks
setIndexExpressionStoreFirst(t, freeVars, x, accumulate) ==
  [tv |-> [tv EXCEPT ![t] = Content(freeVars, x, {accumulate})],
   out |-> setIndexExpressionChecks(t, freeVars, x)]

\* TensorVar::setIndexExpression: the contents after the call and its outcome
setIndexExpression(t, freeVars, x, accumulate) ==
  LET out == setIndexExpressionChecks(t, freeVars, x)
  IN  [tv |-> IF out = "ok"
                THEN [tv EXCEPT ![t] = Content(freeVars, x, {accumulate})]
                ELSE tv,
       out |-> out]

\* AccessNode::setIndexExpression
AccessNodeSetIndexExpression(t, indices, x, accumulate) ==
  setIndexExpression(t, indices, x, accumulate)

\* Access::operator= and Access::operator+= without the reassignment check
AccessAssignUnchecked(t, indices, x, accumulate) ==
  AccessNodeSetIndexExpression(t, indices, x, accumulate)

\* Access::operator= (accumulate false) and Access::operator+= (true) on
\* the Access of tensor t with the given index variables
AccessAssign(t, indices, x, accumulate) ==
  IF defined(tv[t].indexExpr)
    THEN [tv |-> tv, out |-> "reassign"]
    ELSE AccessNodeSetIndexExpression(t, indices, x, accumulate)

\* TensorVar::operator=
TensorVarAssign(t, x) ==
  IF getOrder(t) # 0 THEN [tv |-> tv, out |-> "order"]
  ELSE IF defined(tv[t].indexExpr) THEN [tv |-> tv, out |-> "reassign"]
  ELSE setIndexExpression(t, tv[t].freeVars, x, FALSE)

\* the left-hand sides TensorVar::operator() hands out
LhsIndices(t) == [1..getOrder(t) -> IndexVars]

\* T(free...) = expr
AccessOperatorAssign ==
  \E t \in Tensors, e \in NodeIds :
    \E indices \in LhsIndices(t) :
      LET r == AccessAssign(t, indices, Ref(e), FALSE)
      IN  /\ tv' = r.tv
          /\ op' = Call("=", t, indices, e, r.out)
          /\ UNCHANGED <<nodes, res, operatorSplits, schedule>>

\* T(free...) += expr
AccessOperatorAccumulate ==
  \E t \in Tensors, e \in NodeIds :
    \E indices \in LhsIndices(t) :
      LET r == AccessAssign(t, indices, Ref(e), TRUE)
      IN  /\ tv' = r.tv
          /\ op' = Call("+=", t, indices, e, r.out)
          /\ UNCHANGED <<nodes, res, operatorSplits, schedule>>

\* T = expr
TensorVarOperatorAssign ==
  \E t \in Tensors, e \in NodeIds :
    LET r == TensorVarAssign(t, Ref(e))
    IN  /\ tv' = r.tv
        /\ op' = Call("scalar=", t, tv[t].freeVars, e, r.out)
        /\ UNCHANGED <<nodes, res, operatorSplits, schedule>>

Assign ==
  \/ AccessOperatorAssign
  \/ AccessOperatorAccumulate
  \/ TensorVarOperatorAssign

(***************************************************************************)
(* Input expressions: every expression tree up to a number of nodes, laid  *)
(* out in the table in construction order, and the scenario expressions    *)
(***************************************************************************)
Leaves ==
  UNION {{AccessNode(t, indices) : indices \in LhsIndices(t) \cup {<<>>}} :
         t \in Tensors}
  \cup {ImmNode(k, v) : k \in ImmKinds, v \in ImmVals}

Shift(h, k) ==
  [p \in DOMAIN h |->
     [h[p] EXCEPT !.a = IF @ = 0 THEN 0 ELSE @ + k,
                  !.b = IF @ = 0 THEN 0 ELSE @ + k]]

\* a table extended by a unary node or a reduction over its root
UnaryOver(h) ==
  {Append(h, UnaryNode(k, Len(h))) : k \in UnaryKinds}
  \cup {Append(h, ReductionNode(v, Len(h))) : v \in IndexVars}

\* two tables joined under a binary node
BinaryOver(l, r) ==
  {Append(l \o Shift(r, Len(l)), BinaryNode(k, Len(l), Len(l) + Len(r))) :
     k \in BinaryKinds}

RECURSIVE TreesOf(_)
\* the tables that hold one expression tree of exactly n nodes, root last
TreesOf(n) ==
  IF n = 1 THEN {<<l>> : l \in Leaves}
  ELSE UNION {UnaryOver(h) : h \in TreesOf(n - 1)}
       \cup UNION {UNION {BinaryOver(l, r) :
                            l \in TreesOf(m), r \in TreesOf(n - 1 - m)} :
                   m \in 1..(n - 2)}

\* nodes holds one expression tree of exactly n nodes
IsTreeOf(n) ==
  \/ n = 1 /\ nodes \in TreesOf(1)
  \/ n > 1 /\ \E h \in TreesOf(n - 1) : nodes \in UnaryOver(h)
  \/ n > 2 /\ \E m \in 1..(n - 2) :
                \E l \in TreesOf(m), r \in TreesOf(n - 1 - m) :
                  nodes \in BinaryOver(l, r)

\* y(i) = A(i,j) * x(j)
ScenarioProduct ==
  <<AccessNode("A", <<"i", "j">>), AccessNode("B", <<"j">>),
    BinaryNode("Mul", 1, 2)>>

\* A(i,j)*B(j) + A(i,j)*c with the node of A(i,j) shared by both products
ScenarioZero ==
  <<AccessNode("A", <<"i", "j">>), AccessNode("B", <<"j">>),
    AccessNode("c", <<>>), BinaryNode("Mul", 1, 2), BinaryNode("Mul", 1, 3),
    BinaryNode("Add", 4, 5)>>

\* (A(i,j) + A(j,i)) + B(j)
ScenarioNestedSum ==
  <<AccessNode("A", <<"i", "j">>), AccessNode("A", <<"j", "i">>),
    BinaryNode("Add", 1, 2), AccessNode("B", <<"j">>),
    BinaryNode("Add", 3, 4)>>

Scenarios == {ScenarioProduct, ScenarioZero, ScenarioNestedSum}

Root == Ref(Len(nodes))

(***************************************************************************)
(* Calls of the analyses and transformations                               *)
(***************************************************************************)
\* equals(a, b)
CallEquals ==
  \E x, y \in Exprs \cup {Undef} :
    \E r \in equalsOutcomes(x, y) :
      /\ res' = [fn |-> "equals", a |-> x, b |-> y, out |-> r]
      /\ UNCHANGED <<nodes, tv, op, operatorSplits, schedule>>

\* verify(expr, free)
CallVerify ==
  \E free \in FreeLists :
    /\ res' = [fn |-> "verify", free |-> free, out |-> verify(Root, free)]
    /\ UNCHANGED <<nodes, tv, op, operatorSplits, schedule>>

\* doesEinsumApply(expr)
CallDoesEinsumApply ==
  /\ res' = [fn |-> "doesEinsumApply", out |-> doesEinsumApply(Root)]
  /\ UNCHANGED <<nodes, tv, op, operatorSplits, schedule>>

\* einsum(expr, free)
CallEinsum ==
  \E free \in FreeLists :
    /\ res' = [fn |-> "einsum", free |-> free, out |-> einsum(Root, free)]
    /\ UNCHANGED <<nodes, tv, op, operatorSplits, schedule>>

\* simplify(expr, zeroed)
CallSimplify ==
  \E zeroed \in SUBSET Accesses(Root) :
    /\ res' = [fn |-> "simplify", zeroed |-> zeroed,
               out |-> simplify(Root, zeroed)]
    /\ UNCHANGED <<nodes, tv, op, operatorSplits, schedule>>

(***************************************************************************)
(* Operator splits and schedule extraction.  operatorSplits[n] is the      *)
(* split list of node n; schedule[t] is the list of operator splits held   *)
(* by the schedule of tensor t.  The visitor's schedule and the tensor's   *)
(* are one object: what the visitor adds is what the tensor returns.       *)
(***************************************************************************)
MaxSplits == 2

\* the (old, left, right) triples a client splits with
SplitArgs == {[old |-> v, left |-> "i", right |-> "j"] : v \in IndexVars}

\* OperatorSplit(this, old, left, right)
OperatorSplit(n, old, left, right) ==
  [expr |-> n, old |-> old, left |-> left, right |-> right]

RECURSIVE SumLen(_)
SumLen(ss) == IF ss = <<>> THEN 0 ELSE Len(Head(ss)) + SumLen(Tail(ss))

\* IndexExpr::splitOperator / ExprNode::splitOperator, through any handle
\* of node n
SplitOperator ==
  \E n \in NodeIds, s \in SplitArgs :
    /\ SumLen(operatorSplits) < MaxSplits
    /\ operatorSplits' =
         [operatorSplits EXCEPT
            ![n] = Append(@, OperatorSplit(n, s.old, s.left, s.right))]
    /\ op' = Call("splitOperator", "", <<>>, n, "ok")
    /\ UNCHANGED <<nodes, tv, res, schedule>>

\* Schedule::clearOperatorSplits
clearOperatorSplits(sched) == <<>>

\* Schedule::addOperatorSplit
addOperatorSplit(sched, split) == Append(sched, split)

RECURSIVE AddOperatorSplits(_, _)
\* the loop of GetSchedule::visit(const BinaryExprNode*) over a split list
AddOperatorSplits(sched, splits) ==
  IF splits = <<>> THEN sched
  ELSE AddOperatorSplits(addOperatorSplit(sched, Head(splits)), Tail(splits))

RECURSIVE GetSchedule(_, _)
\* the visitor of TensorVar::getSchedule: its one handler takes every
\* binary node and adds that node's splits without visiting the operands;
\* unary nodes and reductions take the visitor's default, which visits the
\* operand; leaves do nothing
GetSchedule(x, sched) ==
  LET n == node(x)
  IN  CASE n.kind \in BinaryKinds ->
             AddOperatorSplits(sched, operatorSplits[x.id])
        [] n.kind \in UnaryKinds \cup {"Reduction"} ->
             GetSchedule(childA(x), sched)
        [] OTHER -> sched

\* TensorVar::getSchedule: the tensor's schedule after the call, which is
\* also what the call returns
getSchedule(t) ==
  GetSchedule(tv[t].indexExpr, clearOperatorSplits(schedule[t]))

\* tensor.getSchedule() on a tensor that has an expression bound
CallGetSchedule ==
  \E t \in Tensors :
    /\ defined(tv[t].indexExpr)
    /\ schedule' = [schedule EXCEPT ![t] = getSchedule(t)]
    /\ res' = [fn |-> "getSchedule", t |-> t, out |-> getSchedule(t)]
    /\ op' = Call("getSchedule", t, <<>>, 0, "ok")
    /\ UNCHANGED <<nodes, tv, operatorSplits>>

(***************************************************************************)
(* Specifications                                                          *)
(***************************************************************************)
\* TensorVar::TensorVar: no free variables, an undefined expression and an
\* accumulate flag that was never written
FreshTensorVars == [t \in Tensors |-> Content(<<>>, Undef, BOOLEAN)]

\* the client starts with no expression and builds nodes
Init ==
  /\ nodes = <<>>
  /\ tv = FreshTensorVars
  /\ op = NoOp
  /\ res = NoRes
  /\ operatorSplits = [p \in 1..Len(nodes) |-> <<>>]
  /\ schedule = [t \in Tensors |-> <<>>]

Next == Build

Spec == Init /\ [][Next]_vars

NextEquals == Build \/ CallEquals

SpecEquals == Init /\ [][NextEquals]_vars

\* the client holds one built expression
InitExpr(n) ==
  /\ \/ \E m \in 1..n : IsTreeOf(m)
     \/ nodes \in Scenarios
  /\ tv = FreshTensorVars
  /\ op = NoOp
  /\ res = NoRes
  /\ operatorSplits = [p \in 1..Len(nodes) |-> <<>>]
  /\ schedule = [t \in Tensors |-> <<>>]

InitAssign == InitExpr(MaxRhsNodes)

SpecAssign == InitAssign /\ [][Assign]_vars

InitAnalysis == InitExpr(MaxTreeNodes)

SpecVerify == InitAnalysis /\ [][CallVerify]_vars

NextEinsum == CallDoesEinsumApply \/ CallEinsum

SpecEinsum == InitAnalysis /\ [][NextEinsum]_vars

SpecSimplify == InitAnalysis /\ [][CallSimplify]_vars

\* -(A(i,j) * c): a product beneath a unary node
ScenarioNegProduct ==
  <<AccessNode("A", <<"i", "j">>), AccessNode("c", <<>>),
    BinaryNode("Mul", 1, 2), UnaryNode("Neg", 3)>>

\* A(i,j) * c + A(i,j): a product beneath a sum
ScenarioScaledSum ==
  <<AccessNode("A", <<"i", "j">>), AccessNode("c", <<>>),
    BinaryNode("Mul", 1, 2), AccessNode("A", <<"i", "j">>),
    BinaryNode("Add", 3, 4)>>

\* the client holds one of the scenario expressions, no node split yet and
\* no tensor assigned; it splits operators, assigns and asks for schedules
\* in any order
InitSchedule ==
  /\ nodes \in {ScenarioProduct, ScenarioScaledSum, ScenarioNegProduct}
  /\ tv = FreshTensorVars
  /\ op = NoOp
  /\ res = NoRes
  /\ operatorSplits = [p \in 1..Len(nodes) |-> <<>>]
  /\ schedule = [t \in Tensors |-> <<>>]

NextSchedule == AccessOperatorAssign \/ SplitOperator \/ CallGetSchedule

SpecSchedule == InitSchedule /\ [][NextSchedule]_vars

(***************************************************************************)
(* Properties of the assignment protocol                                   *)
(***************************************************************************)
Assignments == {"=", "+=", "scalar="}

Assigned(t) == defined(tv[t].indexExpr)

\* C1 as claimed: once a tensor holds a defined expression, every later
\* assignment attempt on it ends in the "Cannot reassign" error and leaves
\* the stored free variables, expression and accumulate flag alone
C1_AlwaysCannotReassign ==
  [][\A t \in Tensors :
       Assigned(t) =>
         /\ tv'[t] = tv[t]
         /\ (op'.name \in Assignments /\ op'.t = t) => op'.out = "reassign"]_vars

\* C1 amended: once a tensor holds a defined expression, every later
\* attempt is rejected and the stored assignment stays; T(free...) = expr
\* and T(free...) += expr end in "Cannot reassign", and so does T = expr on
\* a scalar, while T = expr on a tensor of order > 0 ends in the
\* index-variable error that TensorVar::operator= tests first
C1_SingleAssignment ==
  [][\A t \in Tensors :
       Assigned(t) =>
         /\ tv'[t] = tv[t]
         /\ (op'.name \in {"=", "+="} /\ op'.t = t) => op'.out = "reassign"
         /\ (op'.name = "scalar=" /\ op'.t = t) =>
              op'.out = IF getOrder(t) = 0 THEN "reassign" ELSE "order"]_vars

\* a reassignment was refused although the new expression passes every
\* check of setIndexExpression, and the tensor still holds the first one
C1_Witness ==
  /\ op.name \in {"=", "+="}
  /\ op.out = "reassign"
  /\ setIndexExpressionChecks(op.t, op.indices, Ref(op.e)) = "ok"
  /\ Assigned(op.t)
  /\ tv[op.t].indexExpr # Ref(op.e)

\* C2: an assignment attempt that ends in a user error leaves every
\* tensor's free variables, expression and accumulate flag as they were,
\* and an attempt on an unassigned tensor that passes the checks succeeds
\* and stores exactly its free variables, expression and flag
C2_RejectedLeavesState ==
  [][op'.name \in Assignments =>
       /\ op'.out # "ok" => tv' = tv
       /\ (/\ ~Assigned(op'.t)
           /\ op'.name = "scalar=" => getOrder(op'.t) = 0
           /\ setIndexExpressionChecks(op'.t, op'.indices, Ref(op'.e)) = "ok")
          => /\ op'.out = "ok"
             /\ tv' = [tv EXCEPT ![op'.t] =
                         Content(op'.indices, Ref(op'.e),
                                 {op'.name = "+="})]]_vars

Rejections == {"dimension", "misformed", "transposition", "distribution",
               "order"}

\* an attempt on an unassigned tensor was rejected by one of the checks,
\* the tensor is still unassigned and another tensor keeps its assignment
C2_Witness ==
  /\ op.name \in Assignments
  /\ op.out \in Rejections
  /\ ~Assigned(op.t)
  /\ tv[op.t] = FreshTensorVars[op.t]
  /\ \E t \in Tensors : Assigned(t)

(***************************************************************************)
(* Properties of construction and of the analyses                          *)
(***************************************************************************)
RECURSIVE FreeOccurrences(_, _)
\* the index variables with an occurrence in an Access that no enclosing
\* Reduction over that variable covers; bound holds the enclosing bindings
FreeOccurrences(x, bound) ==
  LET n == node(x)
  IN  CASE n.kind = "Access" -> Range(n.indexVars) \ bound
        [] n.kind = "Reduction" ->
             FreeOccurrences(childA(x), bound \cup {n.var})
        [] n.kind \in UnaryKinds -> FreeOccurrences(childA(x), bound)
        [] n.kind \in BinaryKinds ->
             FreeOccurrences(childA(x), bound) \cup
             FreeOccurrences(childB(x), bound)
        [] OTHER -> {}

\* C3: verify(e, F) is true exactly when every index variable with an
\* occurrence outside the reductions that bind it belongs to F
C3_VerifyIffFreeInF ==
  res.fn = "verify" =>
    res.out = (FreeOccurrences(Root, {}) \subseteq Range(res.free))

\* C4: every Access node built through the operator surface has as many
\* index variables as its tensor has dimensions
C4_AccessArity ==
  \A n \in NodeIds :
    nodes[n].kind = "Access" =>
      Len(nodes[n].indexVars) = getOrder(nodes[n].tensorVar)

Handles == Exprs \cup {Undef}

DifferentLengthAccesses(x, y) ==
  /\ defined(x) /\ defined(y)
  /\ node(x).kind = "Access" /\ node(y).kind = "Access"
  /\ node(x).tensorVar = node(y).tensorVar
  /\ Len(node(x).indexVars) # Len(node(y).indexVars)

\* C5: equals is reflexive, symmetric and transitive on every pair of
\* handles, and two accesses of one tensor with index lists of different
\* lengths are unequal in both argument orders
C5_EqualsIsEquivalence ==
  res.fn = "equals" =>
    /\ res.a = res.b => res.out
    /\ res.out => equalsOutcomes(res.b, res.a) = {TRUE}
    /\ res.out => \A z \in Handles :
                    TRUE \in equalsOutcomes(res.b, z) =>
                      equalsOutcomes(res.a, z) = {TRUE}
    /\ DifferentLengthAccesses(res.a, res.b) =>
         ~res.out /\ equalsOutcomes(res.b, res.a) = {FALSE}

RECURSIVE SameTree(_, _)
\* the same tree by structure and identity
SameTree(x, y) ==
  LET an == node(x)
      bn == node(y)
  IN  /\ an.kind = bn.kind
      /\ CASE an.kind = "Access" ->
                an.tensorVar = bn.tensorVar /\ an.indexVars = bn.indexVars
           [] an.kind \in UnaryKinds -> SameTree(childA(x), childA(y))
           [] an.kind \in BinaryKinds ->
                SameTree(childA(x), childA(y)) /\ SameTree(childB(x), childB(y))
           [] an.kind = "Reduction" ->
                an.var = bn.var /\ SameTree(childA(x), childA(y))
           [] OTHER -> an.val = bn.val

\* C6: for defined a and b, equals(a, b) is true exactly when a and b are
\* the same tree: same variant, same tensor and index sequence, same
\* reduction variable, same payload, recursively equal children
C6_EqualsIsStructural ==
  (res.fn = "equals" /\ defined(res.a) /\ defined(res.b)) =>
    res.out = SameTree(res.a, res.b)

RECURSIVE Eligible(_, _)
\* built only of Add, Sub and Mul over accesses and immediates, with no Add
\* or Sub beneath a Mul
Eligible(x, underMul) ==
  LET n == node(x)
  IN  CASE n.kind \in {"Add", "Sub"} ->
             /\ ~underMul
             /\ Eligible(childA(x), FALSE) /\ Eligible(childB(x), FALSE)
        [] n.kind = "Mul" ->
             Eligible(childA(x), TRUE) /\ Eligible(childB(x), TRUE)
        [] n.kind = "Access" -> TRUE
        [] n.kind \in ImmKinds -> TRUE
        [] OTHER -> FALSE

RECURSIVE Kinds(_)
Kinds(x) ==
  LET n == node(x)
  IN  {n.kind} \cup
      (CASE n.kind \in UnaryKinds \cup {"Reduction"} -> Kinds(childA(x))
         [] n.kind \in BinaryKinds -> Kinds(childA(x)) \cup Kinds(childB(x))
         [] OTHER -> {})

\* C7: einsum is undefined for every expression that is not
\* einsum-eligible, and a Reduction, Div, Neg or Sqrt anywhere makes
\* doesEinsumApply false
C7_NonEinsumUndefined ==
  /\ (res.fn = "einsum" /\ ~Eligible(Root, FALSE)) => res.out = Undef
  /\ (/\ res.fn = "doesEinsumApply"
      /\ Kinds(Root) \cap {"Reduction", "Div", "Neg", "Sqrt"} # {})
     => res.out = FALSE

\* C8: for an einsum-eligible expression the result of einsum is defined,
\* verifies against the free list, and leaves no occurrence of a variable
\* outside the free list uncovered by a Reduction over it
C8_EinsumBindsAll ==
  (res.fn = "einsum" /\ Eligible(Root, FALSE)) =>
    /\ defined(res.out)
    /\ verify(res.out, res.free)
    /\ FreeOccurrences(res.out, {}) \subseteq Range(res.free)

\* einsum of the nested sum (A(i,j) + A(j,i)) + B(j) with free list [i]
C8_Witness ==
  /\ nodes = ScenarioNestedSum
  /\ res.fn = "einsum"
  /\ res.free = <<"i">>
  /\ defined(res.out)
  /\ "Reduction" \in Kinds(res.out)

RECURSIVE IsZero(_, _)
\* zero propagation as a predicate: a zeroed access is zero, a sum or a
\* difference is zero when both operands are, a product or a quotient when
\* one operand is, a unary node or a reduction when its operand is
IsZero(x, zeroed) ==
  LET n == node(x)
  IN  CASE n.kind = "Access" -> x \in zeroed
        [] n.kind \in UnaryKinds \cup {"Reduction"} ->
             IsZero(childA(x), zeroed)
        [] n.kind \in {"Add", "Sub"} ->
             IsZero(childA(x), zeroed) /\ IsZero(childB(x), zeroed)
        [] n.kind \in {"Mul", "Div"} ->
             IsZero(childA(x), zeroed) \/ IsZero(childB(x), zeroed)
        [] OTHER -> FALSE

RECURSIVE ZeroPropagation(_, _)
\* the zero-propagation result: undefined for a zero expression, the node
\* itself when no zeroed access lies beneath it, the surviving operand of
\* a sum or difference with one zero operand, and otherwise a fresh node
\* over the results of the operands
ZeroPropagation(x, zeroed) ==
  LET n == node(x)
  IN  IF IsZero(x, zeroed) THEN Undef
      ELSE IF Accesses(x) \cap zeroed = {} THEN x
      ELSE CASE n.kind \in {"Add", "Sub"} ->
                  IF IsZero(childA(x), zeroed)
                    THEN ZeroPropagation(childB(x), zeroed)
                  ELSE IF IsZero(childB(x), zeroed)
                    THEN ZeroPropagation(childA(x), zeroed)
                  ELSE BinaryNode(n.kind, ZeroPropagation(childA(x), zeroed),
                                  ZeroPropagation(childB(x), zeroed))
             [] n.kind \in {"Mul", "Div"} ->
                  BinaryNode(n.kind, ZeroPropagation(childA(x), zeroed),
                             ZeroPropagation(childB(x), zeroed))
             [] n.kind = "Reduction" ->
                  ReductionNode(n.var, ZeroPropagation(childA(x), zeroed))
             [] OTHER -> UnaryNode(n.kind, ZeroPropagation(childA(x), zeroed))

\* C9 as claimed: when every Access of e is zeroed, simplify(e, A) is
\* undefined
C9_AllZeroedUndefined ==
  (res.fn = "simplify" /\ Accesses(Root) \subseteq res.zeroed) =>
    res.out = Undef

\* C9 amended: when every Access of e is zeroed and e holds no immediate,
\* simplify(e, A) is undefined
C9_AllZeroedNoImmUndefined ==
  (/\ res.fn = "simplify"
   /\ Accesses(Root) \subseteq res.zeroed
   /\ Kinds(Root) \cap ImmKinds = {})
  => res.out = Undef

\* a sum or difference of two different accesses, both zeroed, came out
\* undefined
C9_Witness ==
  /\ res.fn = "simplify"
  /\ node(Root).kind \in {"Add", "Sub"}
  /\ Kinds(Root) \cap ImmKinds = {}
  /\ Cardinality(res.zeroed) = 2
  /\ res.zeroed = Accesses(Root)
  /\ res.out = Undef

\* C10: simplify returns the zero-propagation result, reusing the original
\* node wherever nothing beneath it changed: with nothing zeroed the
\* expression itself comes back, and for A(i,j)*B(j) + A(i,j)*c zeroing c
\* returns the node of A(i,j)*B(j) and zeroing A(i,j) returns undefined
C10_SimplifyZeroPropagation ==
  res.fn = "simplify" =>
    /\ res.out = ZeroPropagation(Root, res.zeroed)
    /\ res.zeroed = {} => res.out = Root
    /\ (nodes = ScenarioZero /\ res.zeroed = {Ref(3)}) => res.out = Ref(4)
    /\ (nodes = ScenarioZero /\ res.zeroed = {Ref(1)}) => res.out = Undef

\* zeroing c in A(i,j)*B(j) + A(i,j)*c gave back the node of A(i,j)*B(j)
C10_Witness ==
  /\ nodes = ScenarioZero
  /\ res.fn = "simplify"
  /\ res.zeroed = {Ref(3)}
  /\ res.out = Ref(4)

(***************************************************************************)
(* Properties of the reduction nest built by einsum                        *)
(***************************************************************************)
\* the variables of x that are not free, in order of first occurrence
NonFreeVars(x, free) ==
  SelectSeq(getIndexVars(x), LAMBDA v : v \notin Range(free))

RECURSIVE NestOutward(_, _)
\* the nest whose innermost reduction binds the first variable of vs and
\* whose outermost reduction binds the last, around the body x
NestOutward(x, vs) ==
  IF vs = <<>> THEN x
  ELSE NestOutward(ReductionNode(Head(vs), x), Tail(vs))

\* an einsum-eligible expression whose top level is one product or access
SingleTerm(x) ==
  /\ Eligible(x, FALSE)
  /\ node(x).kind \notin {"Add", "Sub"}

\* C11: for an einsum-eligible single term e with non-free variables
\* v_1..v_k in order of first occurrence, einsum(e, free) is the nest
\* sum(v_k)(... sum(v_1)(e) ...), the last-occurring variable outermost and
\* the node e itself the innermost body; with k = 0 the result is e
C11_LastVarOutermost ==
  (res.fn = "einsum" /\ SingleTerm(Root)) =>
    res.out = NestOutward(Root, NonFreeVars(Root, res.free))

RECURSIVE NestInward(_, _)
\* the nest whose outermost reduction binds the first variable of vs and
\* whose innermost reduction binds the last, around the body x
NestInward(x, vs) ==
  IF vs = <<>> THEN x
  ELSE ReductionNode(Head(vs), NestInward(x, Tail(vs)))

\* C11 as amended: for an einsum-eligible single term e with non-free
\* variables v_1..v_k in order of first occurrence, einsum(e, free) is the
\* nest sum(v_1)(... sum(v_k)(e) ...), the first-occurring variable
\* outermost and the node e itself the innermost body; with k = 0 the
\* result is e
C11_FirstVarOutermost ==
  (res.fn = "einsum" /\ SingleTerm(Root)) =>
    res.out = NestInward(Root, NonFreeVars(Root, res.free))

\* einsum of A(i,j)*B(j) with no free variable came out as
\* sum(i)(sum(j)(A(i,j)*B(j))) around the original product node
C11_Witness ==
  /\ nodes = ScenarioProduct
  /\ res.fn = "einsum"
  /\ res.free = <<>>
  /\ ~IsRef(res.out)
  /\ res.out.kind = "Reduction" /\ res.out.var = "i"
  /\ ~IsRef(res.out.a)
  /\ res.out.a.kind = "Reduction" /\ res.out.a.var = "j"
  /\ res.out.a.a = Root

(***************************************************************************)
(* Properties of schedule extraction                                       *)
(***************************************************************************)
RECURSIVE AllSplits(_)
\* the operator splits of every binary node of x in depth-first pre-order,
\* each node's splits in the order they were appended
AllSplits(x) ==
  LET n == node(x)
  IN  CASE n.kind \in BinaryKinds ->
             operatorSplits[x.id] \o AllSplits(childA(x))
               \o AllSplits(childB(x))
        [] n.kind \in UnaryKinds \cup {"Reduction"} -> AllSplits(childA(x))
        [] OTHER -> <<>>

\* C12: after any sequence of splitOperator calls, tensor.getSchedule()
\* returns exactly the operator splits of every binary node of the bound
\* expression, nested binary nodes included, in traversal order and per
\* node in append order, and a repeated call returns the same contents with
\* nothing duplicated or accumulated
C12_ScheduleHasEverySplit ==
  op.name = "getSchedule" =>
    /\ res.out = AllSplits(tv[op.t].indexExpr)
    /\ schedule[op.t] = res.out

====
